---- MODULE Spec2Model ----
(***************************************************************************)
(* Photo reorganizer (photo-reorganizer/src/components/PhotoGrid.tsx, its  *)
(* later revision with deletion and paging, lib/indexeddb.ts and           *)
(* app/api/products/route.ts): the in-memory product list, the rename      *)
(* instructions accumulated by drags and deletes, and the IndexedDB        *)
(* record that persists them.                                              *)
(*                                                                         *)
(* A filename "<n>.<ext>" is the record [n |-> n, ext |-> ext]; parseInt   *)
(* of the part before the first dot is the field n, and the template       *)
(* `${n}.jpg` is Jpg(n).  A JavaScript object is a function whose DOMAIN   *)
(* is its key set.  A photo id `${sku}-${index}` is the pair <<sku,index>>.*)
(***************************************************************************)
EXTENDS Integers, Sequences, FiniteSets, TLC

\* ---------------------------------------------------------------- bounds
MaxOps == 3        \* accepted drags and deletes in one run
MaxLoads == 2      \* calls of loadProductsFromAPI in one run
MaxTxns == 2       \* IndexedDB transactions in flight at once
MaxEventOps == 1   \* accepted drags and deletes in a run that also delivers rejected events
MaxRequests == 5   \* calls of loadProductsFromAPI in a run over a catalogue of two pages

\* ------------------------------------------------------- listing source
Name(n, ext) == [n |-> n, ext |-> ext]
Jpg(n) == Name(n, "jpg")
Num(f) == f.n

\* The product directories under public/photos/products, already sorted
ProductDirs == <<"A", "B">>
\* A catalogue of one directory more than a page holds, already sorted
ManyDirs == <<"A", "B", "C", "D", "E", "F", "G", "H", "I", "J", "K", "L", "M">>
\* readdirSync(productPath) of each directory, in directory order
DirFiles ==
  [d \in {ManyDirs[i] : i \in 1..Len(ManyDirs)} |->
     IF d = "A" THEN <<Jpg(2), Jpg(1), Jpg(3)>>
     ELSE IF d = "B" THEN <<Jpg(2), Name(1, "png")>>
     ELSE <<Jpg(1)>>]
\* limit: '12' in the query of every call of loadProductsFromAPI
Limit == 12
ImageExts == {"jpg", "jpeg", "png", "webp"}

Skus == {ProductDirs[i] : i \in 1..Len(ProductDirs)}

\* ------------------------------------------------------------- helpers
EmptyObj == [x \in {} |-> x]
Has(obj, k) == k \in DOMAIN obj
\* an assignment into a fresh object, without the spread of the old one
Put_NoSpread(obj, k, v) == [x \in {k} |-> v]
Put(obj, k, v) == [x \in (DOMAIN obj) \cup {k} |-> IF x = k THEN v ELSE obj[x]]
Get(obj, k) == IF Has(obj, k) THEN obj[k] ELSE EmptyObj
Min(S) == CHOOSE x \in S : \A y \in S : x <= y

\* Array.prototype.findIndex, 1-based; 0 stands for -1
FirstOf(hits) == IF hits = {} THEN 0 ELSE Min(hits)
\* products.findIndex(p => p.sku === sku)
FindSku(list, sku) == FirstOf({i \in 1..Len(list) : list[i].sku = sku})
\* product.photos.findIndex(p => p.id === id)
FindPhoto(photos, id) == FirstOf({i \in 1..Len(photos) : photos[i].id = id})

\* a map that keeps the order values the photos had
Renumber_KeepOrder(photos) == photos

\* photos.map((photo, index) => ({...photo, order: index + 1}))
Renumber(photos) == [i \in 1..Len(photos) |-> [photos[i] EXCEPT !.order = i]]

\* Array.prototype.sort with the comparator aNum - bNum (stable)
InsertByNum(sorted, p) ==
  LET later == {i \in 1..Len(sorted) : Num(sorted[i].filename) > Num(p.filename)}
      k == IF later = {} THEN Len(sorted) + 1 ELSE Min(later)
  IN SubSeq(sorted, 1, k - 1) \o <<p>> \o SubSeq(sorted, k, Len(sorted))

RECURSIVE SortByNum(_)
SortByNum(photos) ==
  IF photos = <<>> THEN <<>>
  ELSE InsertByNum(SortByNum(SubSeq(photos, 1, Len(photos) - 1)), photos[Len(photos)])

\* route.ts GET: the photo objects of one product directory
ApiPhotos(sku) ==
  LET kept == SelectSeq(DirFiles[sku], LAMBDA f : f.ext \in ImageExts)
      asPhotos == [i \in 1..Len(kept) |->
                     [id |-> <<sku, 0>>, filename |-> kept[i], path |-> kept[i], order |-> 0]]
      files == SortByNum(asPhotos)
  IN [i \in 1..Len(files) |->
        [id |-> <<sku, i>>, filename |-> files[i].filename,
         path |-> files[i].filename, order |-> i]]

ApiProduct(sku) ==
  [sku |-> sku, totalImages |-> Len(ApiPhotos(sku)), photos |-> ApiPhotos(sku)]

\* the values the search input takes
SearchTerms == {"", "a"}
\* dir.toLowerCase()
Lower(dir) == IF dir = "A" THEN "a" ELSE IF dir = "B" THEN "b" ELSE dir
\* dir.toLowerCase().includes(search.toLowerCase()), search of one letter at most
Includes(dir, search) == search = "" \/ Lower(dir) = Lower(search)

\* Array.prototype.slice(startIndex, endIndex) of a sequence, 0-based
Slice(seq, startIndex, endIndex) ==
  IF startIndex >= Len(seq) THEN <<>>
  ELSE SubSeq(seq, startIndex + 1, IF endIndex < Len(seq) THEN endIndex ELSE Len(seq))

\* Math.ceil(total / limit)
CeilDiv(total, limit) == (total + limit - 1) \div limit

\* route.ts GET: the response for one page of the directories dirs
ApiPage(dirs, page, limit, search) ==
  LET filteredDirs == SelectSeq(dirs, LAMBDA dir : Includes(dir, search))
      startIndex == (page - 1) * limit
      endIndex == startIndex + limit
      paginatedDirs == Slice(filteredDirs, startIndex, endIndex)
      validProducts ==
        SelectSeq([i \in 1..Len(paginatedDirs) |-> ApiProduct(paginatedDirs[i])],
                  LAMBDA p : p.totalImages > 0)
  IN [products |-> validProducts,
      pagination |-> [page |-> page,
                      totalPages |-> CeilDiv(Len(filteredDirs), limit),
                      hasNext |-> endIndex < Len(filteredDirs),
                      hasPrev |-> page > 1]]

\* route.ts GET for page 1 of the directories ProductDirs, which fit one page
ApiProductsFor(search) == ApiPage(ProductDirs, 1, Limit, search).products

\* route.ts GET for page 1 without a search term
ApiProducts == ApiProductsFor("")

\* arrayMove of @dnd-kit/sortable: take the element at from, insert it at to
arrayMove(array, from, to) ==
  LET item == array[from]
      rest == SubSeq(array, 1, from - 1) \o SubSeq(array, from + 1, Len(array))
  IN SubSeq(rest, 1, to - 1) \o <<item>> \o SubSeq(rest, to, Len(rest))

\* a load that rewrites the filenames but leaves the photos in listing order
ApplyInstructions_Unsorted(product, instructions) ==
  IF ~Has(instructions, product.sku) THEN product
  ELSE LET productInstructions == instructions[product.sku]
           updatedPhotos ==
             [i \in 1..Len(product.photos) |->
                [product.photos[i] EXCEPT !.filename =
                   IF Has(productInstructions, product.photos[i].filename)
                   THEN productInstructions[product.photos[i].filename]
                   ELSE product.photos[i].filename]]
       IN [product EXCEPT !.photos = Renumber(updatedPhotos)]

\* loadProductsFromAPI: apply the rename instructions to one product
ApplyInstructions(product, instructions) ==
  IF ~Has(instructions, product.sku) THEN product
  ELSE LET productInstructions == instructions[product.sku]
           updatedPhotos ==
             [i \in 1..Len(product.photos) |->
                [product.photos[i] EXCEPT !.filename =
                   IF Has(productInstructions, product.photos[i].filename)
                   THEN productInstructions[product.photos[i].filename]
                   ELSE product.photos[i].filename]]
       IN [product EXCEPT !.photos = Renumber(SortByNum(updatedPhotos))]

\* ----------------------------------------------------------------- state
VARIABLES
  products,            \* useState<Product[]>
  renameInstructions,  \* useState<RenameInstruction>
  isLoading,           \* useState(true): the grid is not rendered while TRUE
  db,                  \* the object store: <<>> or <<data>> of the record 'instructions'
  txns,                \* IndexedDB transactions in flight, in creation order
  ops,                 \* history: accepted operations since the last load
  base,                \* history: the instructions the last load read
  nOps,                \* history: accepted operations so far
  nLoads,              \* history: loads started so far
  searchTerm,          \* useState('')
  exported,            \* <<>> or <<document>>: the last file exportInstructions downloaded
  event,               \* history: how the last rejected drag or delete, or the last clear, ended
  listing,             \* the product directories on disk
  isLoadingMore,       \* useState(false)
  pagination,          \* useState({page, totalPages, hasNext, hasPrev})
  requests             \* calls of loadProductsFromAPI waiting for their fetch

vars == <<products, renameInstructions, isLoading, db, txns, ops, base, nOps, nLoads,
          searchTerm, exported, event, listing, isLoadingMore, pagination, requests>>

Init ==
  /\ products = <<>>
  /\ renameInstructions = EmptyObj
  /\ isLoading = TRUE
  /\ db = <<>>
  /\ txns = <<>>
  /\ ops = <<>>
  /\ base = EmptyObj
  /\ nOps = 0
  /\ nLoads = 0
  /\ searchTerm = ""
  /\ exported = <<>>
  /\ event = "none"
  /\ listing = ProductDirs
  /\ isLoadingMore = FALSE
  /\ pagination = [page |-> 1, totalPages |-> 1, hasNext |-> FALSE, hasPrev |-> FALSE]
  /\ requests = {}

\* --------------------------------------------------------------- storage
\* getRenameInstructions: resolve(result ? result.data : {})
DbRead == IF db = <<>> THEN EmptyObj ELSE db[1]

PutTxn(data) == [op |-> "put", data |-> data]
GetTxn == [op |-> "get", data |-> EmptyObj]

\* a store whose writes complete in any order
PutSucceeds_OutOfOrder ==
  /\ txns # <<>>
  /\ \E i \in 1..Len(txns) :
       /\ txns[i].op = "put"
       /\ db' = <<txns[i].data>>
       /\ txns' = SubSeq(txns, 1, i - 1) \o SubSeq(txns, i + 1, Len(txns))
  /\ UNCHANGED <<products, renameInstructions, isLoading, ops, base, nOps, nLoads,
                 searchTerm, exported, event,
                 listing, isLoadingMore, pagination, requests>>

\* saveRenameInstructions: store.put succeeds
PutSucceeds ==
  /\ txns # <<>>
  /\ Head(txns).op = "put"
  /\ db' = <<Head(txns).data>>
  /\ txns' = Tail(txns)
  /\ UNCHANGED <<products, renameInstructions, isLoading, ops, base, nOps, nLoads,
                 searchTerm, exported, event,
                 listing, isLoadingMore, pagination, requests>>

\* saveRenameInstructions: request.onerror, the handler's catch logs it
PutFails ==
  /\ txns # <<>>
  /\ Head(txns).op = "put"
  /\ txns' = Tail(txns)
  /\ UNCHANGED <<products, renameInstructions, isLoading, db, ops, base, nOps, nLoads,
                 searchTerm, exported, event,
                 listing, isLoadingMore, pagination, requests>>

\* ------------------------------------------------------------------ load
\* The loads of this section run over the directories ProductDirs, and no
\* event reaches the component between the call and the read of the
\* instructions: the grid is not rendered while isLoading.
\* loadProductsFromAPI(1, search, false) up to the read of the instructions
BeginLoad ==
  /\ nLoads < MaxLoads
  /\ Len(txns) < MaxTxns
  /\ \A i \in 1..Len(txns) : txns[i].op # "get"
  /\ isLoading' = TRUE
  /\ txns' = Append(txns, GetTxn)
  /\ nLoads' = nLoads + 1
  /\ UNCHANGED <<products, renameInstructions, db, ops, base, nOps, exported, event,
                 listing, isLoadingMore, pagination, requests>>

\* the initial-load effect with the search term as it is
LoadStart == BeginLoad /\ UNCHANGED searchTerm

\* the first load of the page
Mount == nLoads = 0 /\ LoadStart

\* the search input's onChange: setSearchTerm, and the effect loads page 1
SearchChange(term) ==
  /\ ~isLoading
  /\ term # searchTerm
  /\ searchTerm' = term
  /\ BeginLoad

\* loadProductsFromAPI after getRenameInstructions resolved
LoadFinish ==
  /\ txns # <<>>
  /\ Head(txns).op = "get"
  /\ LET instructions == DbRead
     IN /\ renameInstructions' = instructions
        /\ products' = [i \in 1..Len(ApiProductsFor(searchTerm)) |->
                          ApplyInstructions(ApiProductsFor(searchTerm)[i], instructions)]
        /\ base' = instructions
  /\ pagination' = ApiPage(ProductDirs, 1, Limit, searchTerm).pagination
  /\ isLoading' = FALSE
  /\ isLoadingMore' = FALSE
  /\ txns' = Tail(txns)
  /\ ops' = <<>>
  /\ UNCHANGED <<db, nOps, nLoads, searchTerm, exported, event, listing, requests>>

\* ------------------------------------------------------------------ drag
\* a drag that records only the dragged photo's new name
SwapEntries_OneWay(plan, activePhoto, overPhoto) ==
  Put(plan, activePhoto.filename, overPhoto.filename)

\* the two entries handleDragEnd writes for the swap
SwapEntries(plan, activePhoto, overPhoto) ==
  Put(Put(plan, activePhoto.filename, overPhoto.filename),
      overPhoto.filename, activePhoto.filename)

\* over === null
NoTarget == <<"", 0>>

\* a handler that lets a drop of a photo on itself through
DragRejection_NoSelfCheck(activeSku, activeId, overSku, overId) ==
  IF overId = NoTarget THEN "drag: no target or same photo"
  ELSE IF activeSku # overSku THEN "drag: other product"
  ELSE IF FindSku(products, activeSku) = 0 THEN "drag: no product"
  ELSE IF \/ FindPhoto(products[FindSku(products, activeSku)].photos, activeId) = 0
          \/ FindPhoto(products[FindSku(products, activeSku)].photos, overId) = 0
       THEN "drag: no photo"
  ELSE "none"

\* the early return handleDragEnd takes for an event, "none" when it goes on
DragRejection(activeSku, activeId, overSku, overId) ==
  IF overId = NoTarget \/ activeId = overId THEN "drag: no target or same photo"
  ELSE IF activeSku # overSku THEN "drag: other product"
  ELSE IF FindSku(products, activeSku) = 0 THEN "drag: no product"
  ELSE IF \/ FindPhoto(products[FindSku(products, activeSku)].photos, activeId) = 0
          \/ FindPhoto(products[FindSku(products, activeSku)].photos, overId) = 0
       THEN "drag: no photo"
  ELSE "none"

\* handleDragEnd leaving through one of its early returns
handleDragEndReturns(activeSku, activeId, overSku, overId) ==
  /\ ~isLoading
  /\ DragRejection(activeSku, activeId, overSku, overId) # "none"
  /\ event' = DragRejection(activeSku, activeId, overSku, overId)
  /\ UNCHANGED <<products, renameInstructions, isLoading, db, txns, ops, base,
                 nOps, nLoads, searchTerm, exported,
                 listing, isLoadingMore, pagination, requests>>

handleDragEnd(activeSku, activeId, overSku, overId) ==
  /\ ~isLoading
  /\ nOps < MaxOps
  /\ Len(txns) < MaxTxns
  /\ DragRejection(activeSku, activeId, overSku, overId) = "none"
  /\ LET productIndex == FindSku(products, activeSku)
     IN /\ productIndex # 0
        /\ LET product == products[productIndex]
               activeIndex == FindPhoto(product.photos, activeId)
               overIndex == FindPhoto(product.photos, overId)
           IN /\ activeIndex # 0
              /\ overIndex # 0
              /\ LET newPhotos == arrayMove(product.photos, activeIndex, overIndex)
                     updatedProduct == [product EXCEPT !.photos = Renumber(newPhotos)]
                     activePhoto == product.photos[activeIndex]
                     overPhoto == product.photos[overIndex]
                     newInstructions ==
                       Put(renameInstructions, activeSku,
                           SwapEntries(Get(renameInstructions, activeSku),
                                       activePhoto, overPhoto))
                 IN /\ products' = [products EXCEPT ![productIndex] = updatedProduct]
                    /\ renameInstructions' = newInstructions
                    /\ txns' = Append(txns, PutTxn(newInstructions))
                    /\ ops' = Append(ops, [kind |-> "drag", sku |-> activeSku,
                                           a |-> activeIndex, b |-> overIndex])
  /\ nOps' = nOps + 1
  /\ UNCHANGED <<isLoading, db, base, nLoads, searchTerm, exported, event,
                 listing, isLoadingMore, pagination, requests>>

\* ---------------------------------------------------------------- delete
\* the loop of handlePhotoDelete: photos after the deleted one move up
RECURSIVE ShiftEntries(_, _, _)
ShiftEntries(plan, photos, i) ==
  IF i > Len(photos) THEN plan
  ELSE LET currentPhoto == photos[i]
           newFilename == Jpg(i - 1)
       IN ShiftEntries(IF currentPhoto.filename # newFilename
                       THEN Put(plan, currentPhoto.filename, newFilename)
                       ELSE plan,
                       photos, i + 1)

\* a delete that names the deleted photo after the count left, without + 1
DeleteEntries_LastSlot(plan, photos, deleteIndex) ==
  LET lastPosition == Len(photos) - 1
  IN Put(ShiftEntries(plan, photos, deleteIndex + 1),
         photos[deleteIndex].filename, Jpg(lastPosition))

\* the entries handlePhotoDelete writes for the deletion at deleteIndex
DeleteEntries(plan, photos, deleteIndex) ==
  LET lastPosition == Len(photos) - 1
  IN Put(ShiftEntries(plan, photos, deleteIndex + 1),
         photos[deleteIndex].filename, Jpg(lastPosition + 1))

\* the early return handlePhotoDelete takes for a call, "none" when it goes on
DeleteRejection(sku, photoId) ==
  IF FindSku(products, sku) = 0 THEN "delete: no product"
  ELSE IF FindPhoto(products[FindSku(products, sku)].photos, photoId) = 0
       THEN "delete: no photo"
  ELSE "none"

\* handlePhotoDelete leaving through one of its early returns
handlePhotoDeleteReturns(sku, photoId) ==
  /\ ~isLoading
  /\ DeleteRejection(sku, photoId) # "none"
  /\ event' = DeleteRejection(sku, photoId)
  /\ UNCHANGED <<products, renameInstructions, isLoading, db, txns, ops, base,
                 nOps, nLoads, searchTerm, exported,
                 listing, isLoadingMore, pagination, requests>>

\* a delete that drops the last photo of the collection
handlePhotoDelete_DropsLast(sku, photoId) ==
  /\ ~isLoading
  /\ DeleteRejection(sku, photoId) = "none"
  /\ nOps < MaxOps
  /\ Len(txns) < MaxTxns
  /\ LET productIndex == FindSku(products, sku)
     IN /\ productIndex # 0
        /\ LET product == products[productIndex]
               deleteIndex == FindPhoto(product.photos, photoId)
           IN /\ deleteIndex # 0
              /\ LET newPhotos == SubSeq(product.photos, 1, Len(product.photos) - 1)
                     newInstructions ==
                       Put(renameInstructions, sku,
                           DeleteEntries(Get(renameInstructions, sku),
                                         product.photos, deleteIndex))
                     finalPhotos == Renumber(newPhotos)
                     updatedProduct == [product EXCEPT !.photos = finalPhotos,
                                                      !.totalImages = Len(finalPhotos)]
                 IN /\ products' = [products EXCEPT ![productIndex] = updatedProduct]
                    /\ renameInstructions' = newInstructions
                    /\ txns' = Append(txns, PutTxn(newInstructions))
                    /\ ops' = Append(ops, [kind |-> "delete", sku |-> sku,
                                           a |-> deleteIndex, b |-> 0])
  /\ nOps' = nOps + 1
  /\ UNCHANGED <<isLoading, db, base, nLoads, searchTerm, exported, event,
                 listing, isLoadingMore, pagination, requests>>

handlePhotoDelete(sku, photoId) ==
  /\ ~isLoading
  /\ DeleteRejection(sku, photoId) = "none"
  /\ nOps < MaxOps
  /\ Len(txns) < MaxTxns
  /\ LET productIndex == FindSku(products, sku)
     IN /\ productIndex # 0
        /\ LET product == products[productIndex]
               deleteIndex == FindPhoto(product.photos, photoId)
           IN /\ deleteIndex # 0
              /\ LET newPhotos == SelectSeq(product.photos, LAMBDA p : p.id # photoId)
                     newInstructions ==
                       Put(renameInstructions, sku,
                           DeleteEntries(Get(renameInstructions, sku),
                                         product.photos, deleteIndex))
                     finalPhotos == Renumber(newPhotos)
                     updatedProduct == [product EXCEPT !.photos = finalPhotos,
                                                      !.totalImages = Len(finalPhotos)]
                 IN /\ products' = [products EXCEPT ![productIndex] = updatedProduct]
                    /\ renameInstructions' = newInstructions
                    /\ txns' = Append(txns, PutTxn(newInstructions))
                    /\ ops' = Append(ops, [kind |-> "delete", sku |-> sku,
                                           a |-> deleteIndex, b |-> 0])
  /\ nOps' = nOps + 1
  /\ UNCHANGED <<isLoading, db, base, nLoads, searchTerm, exported, event,
                 listing, isLoadingMore, pagination, requests>>

\* ------------------------------------------------------------------ spec
PhotoIds == {<<ProductDirs[i], j>> : i \in 1..Len(ProductDirs), j \in 1..3}

Drag == \E a \in PhotoIds, o \in PhotoIds : handleDragEnd(a[1], a, o[1], o)
Delete == \E p \in PhotoIds : handlePhotoDelete(p[1], p)

Next ==
  \/ LoadStart
  \/ LoadFinish
  \/ Drag
  \/ Delete
  \/ PutSucceeds
  \/ PutFails

Spec == Init /\ [][Next]_vars

\* ---------------------------------------------------------------- export
\* JSON.stringify(renameInstructions, null, 2) as the JSON document it
\* writes: the product keys and, per product, the "old": "new" members
Stringify(instructions) ==
  [keys |-> DOMAIN instructions,
   members |-> UNION {{<<s, f, instructions[s][f]>> : f \in DOMAIN instructions[s]} :
                        s \in DOMAIN instructions}]

\* an export that serializes what the store holds
exportInstructions_FromStore ==
  /\ ~isLoading
  /\ exported' = <<Stringify(DbRead)>>
  /\ UNCHANGED <<products, renameInstructions, isLoading, db, txns, ops, base,
                 nOps, nLoads, searchTerm, event,
                 listing, isLoadingMore, pagination, requests>>

\* exportInstructions: the download of rename-instructions.json
exportInstructions ==
  /\ ~isLoading
  /\ exported' = <<Stringify(renameInstructions)>>
  /\ UNCHANGED <<products, renameInstructions, isLoading, db, txns, ops, base,
                 nOps, nLoads, searchTerm, event,
                 listing, isLoadingMore, pagination, requests>>

\* ------------------------------------- one session without a second load
NextSession ==
  \/ Mount
  \/ LoadFinish
  \/ Drag
  \/ Delete
  \/ PutSucceeds
  \/ PutFails

SpecSession == Init /\ [][NextSession]_vars

\* ------------------------------------------ one session, every save stored
NextEdit ==
  \/ Mount
  \/ LoadFinish
  \/ Drag
  \/ Delete
  \/ PutSucceeds

SpecEdit == Init /\ [][NextEdit]_vars

\* ----------------------------------------------------------------- clear
DeleteTxn == [op |-> "delete", data |-> EmptyObj]

\* clearInstructions up to the await of clearRenameInstructions
clearInstructions ==
  /\ ~isLoading
  /\ Len(txns) < MaxTxns
  /\ txns' = Append(txns, DeleteTxn)
  /\ UNCHANGED <<products, renameInstructions, isLoading, db, ops, base,
                 nOps, nLoads, searchTerm, exported, event,
                 listing, isLoadingMore, pagination, requests>>

\* a clear that resets the state but leaves the stored record
ClearSucceeds_KeepsRecord ==
  /\ txns # <<>>
  /\ Head(txns).op = "delete"
  /\ db' = db
  /\ renameInstructions' = EmptyObj
  /\ txns' = Tail(txns)
  /\ event' = "cleared"
  /\ UNCHANGED <<products, isLoading, ops, base, nOps, nLoads, searchTerm, exported,
                 listing, isLoadingMore, pagination, requests>>

\* store.delete succeeds, then setRenameInstructions({})
ClearSucceeds ==
  /\ txns # <<>>
  /\ Head(txns).op = "delete"
  /\ db' = <<>>
  /\ renameInstructions' = EmptyObj
  /\ txns' = Tail(txns)
  /\ event' = "cleared"
  /\ UNCHANGED <<products, isLoading, ops, base, nOps, nLoads, searchTerm, exported,
                 listing, isLoadingMore, pagination, requests>>

\* store.delete fails, the catch logs it
ClearFails ==
  /\ txns # <<>>
  /\ Head(txns).op = "delete"
  /\ txns' = Tail(txns)
  /\ event' = "clear failed"
  /\ UNCHANGED <<products, renameInstructions, isLoading, db, ops, base,
                 nOps, nLoads, searchTerm, exported,
                 listing, isLoadingMore, pagination, requests>>

NextClear ==
  \/ Mount
  \/ LoadFinish
  \/ Drag
  \/ Delete
  \/ PutSucceeds
  \/ PutFails
  \/ clearInstructions
  \/ ClearSucceeds
  \/ ClearFails

SpecClear == Init /\ [][NextClear]_vars

\* --------------------------------------- the store under few operations
NextStore ==
  \/ LoadStart
  \/ LoadFinish
  \/ nOps < MaxEventOps /\ Drag
  \/ nOps < MaxEventOps /\ Delete
  \/ PutSucceeds
  \/ PutFails
  \/ clearInstructions
  \/ ClearSucceeds
  \/ ClearFails

SpecStore == Init /\ [][NextStore]_vars

\* -------------------------------------------------- every handler outcome
EventIds == PhotoIds \cup {<<"Z", 1>>}
DragEvent ==
  \E a \in EventIds, o \in EventIds \cup {NoTarget} :
    \/ nOps < MaxEventOps /\ handleDragEnd(a[1], a, o[1], o)
    \/ handleDragEndReturns(a[1], a, o[1], o)
DeleteEvent ==
  \E p \in EventIds :
    \/ nOps < MaxEventOps /\ handlePhotoDelete(p[1], p)
    \/ handlePhotoDeleteReturns(p[1], p)

NextEvents ==
  \/ Mount
  \/ LoadFinish
  \/ DragEvent
  \/ DeleteEvent
  \/ PutSucceeds
  \/ PutFails
  \/ exportInstructions

SpecEvents == Init /\ [][NextEvents]_vars

\* ------------------------------------------------ one session with search
Search == \E term \in SearchTerms : SearchChange(term)

NextSearch ==
  \/ Mount
  \/ Search
  \/ LoadFinish
  \/ Drag
  \/ Delete
  \/ PutSucceeds
  \/ PutFails

SpecSearch == Init /\ [][NextSearch]_vars

\* ---------------------------------------------------------------- paging
\* The component over a catalogue of two pages.  Here every call of
\* loadProductsFromAPI is followed through its two awaits: the fetch, after
\* which the call creates its read of the instructions, and the read.
InitPaged ==
  /\ products = <<>>
  /\ renameInstructions = EmptyObj
  /\ isLoading = TRUE
  /\ db = <<>>
  /\ txns = <<>>
  /\ ops = <<>>
  /\ base = EmptyObj
  /\ nOps = 0
  /\ nLoads = 0
  /\ searchTerm = ""
  /\ exported = <<>>
  /\ event = "none"
  /\ listing = ManyDirs
  /\ isLoadingMore = FALSE
  /\ pagination = [page |-> 1, totalPages |-> 1, hasNext |-> FALSE, hasPrev |-> FALSE]
  /\ requests = {}

\* loadProductsFromAPI(page, search, append) up to the fetch
StartRequest(page, search, append) ==
  /\ nLoads < MaxRequests
  /\ isLoading' = (IF append THEN isLoading ELSE TRUE)
  /\ isLoadingMore' = (IF append THEN TRUE ELSE isLoadingMore)
  /\ requests' = requests \cup {[id |-> nLoads + 1, page |-> page,
                                  search |-> search, append |-> append]}
  /\ nLoads' = nLoads + 1
  /\ UNCHANGED <<products, renameInstructions, db, txns, ops, base, nOps, exported,
                 event, listing, pagination>>

\* the initial-load effect at mount
PagedMount == nLoads = 0 /\ StartRequest(1, searchTerm, FALSE) /\ UNCHANGED searchTerm

\* the search input's onChange: setSearchTerm, and the effect loads page 1
PagedSearchChange(term) ==
  /\ nLoads > 0
  /\ ~isLoading
  /\ term # searchTerm
  /\ searchTerm' = term
  /\ StartRequest(1, term, FALSE)

\* the IntersectionObserver callback with the trigger in view
LoadMore ==
  /\ nLoads > 0
  /\ ~isLoading
  /\ pagination.hasNext
  /\ ~isLoadingMore
  /\ StartRequest(pagination.page + 1, searchTerm, TRUE)
  /\ UNCHANGED searchTerm

\* the read of the instructions a call creates once its fetch has returned
GetTxnFor(r, data) ==
  [op |-> "get",
   data |-> [append |-> r.append, search |-> r.search,
             products |-> data.products, pagination |-> data.pagination]]

\* the fetch of a call returns: response.json(), dbManager.init(), and the
\* call of getRenameInstructions
FetchReturns(r) ==
  /\ r \in requests
  /\ Len(txns) < MaxTxns
  /\ requests' = requests \ {r}
  /\ txns' = Append(txns, GetTxnFor(r, ApiPage(listing, r.page, Limit, r.search)))
  /\ UNCHANGED <<products, renameInstructions, isLoading, db, ops, base, nOps, nLoads,
                 searchTerm, exported, event, listing, isLoadingMore, pagination>>

\* the fetch of a call fails: catch logs it, finally resets both flags
FetchFails(r) ==
  /\ r \in requests
  /\ requests' = requests \ {r}
  /\ isLoading' = FALSE
  /\ isLoadingMore' = FALSE
  /\ UNCHANGED <<products, renameInstructions, db, txns, ops, base, nOps, nLoads,
                 searchTerm, exported, event, listing, pagination>>

\* an append that adds the whole page
AppendNew_NoFilter(prev, updatedProducts) == prev \o updatedProducts

\* setProducts(prev => [...prev, ...newProducts]) of an append
AppendNew(prev, updatedProducts) ==
  LET existingSkus == {prev[i].sku : i \in 1..Len(prev)}
  IN prev \o SelectSeq(updatedProducts, LAMBDA p : p.sku \notin existingSkus)

\* loadProductsFromAPI after getRenameInstructions resolved
PagedLoadFinish ==
  /\ txns # <<>>
  /\ Head(txns).op = "get"
  /\ LET data == Head(txns).data
         instructions == DbRead
         updatedProducts == [i \in 1..Len(data.products) |->
                               ApplyInstructions(data.products[i], instructions)]
     IN /\ renameInstructions' = instructions
        /\ products' = (IF data.append THEN AppendNew(products, updatedProducts)
                        ELSE updatedProducts)
        /\ pagination' = data.pagination
        /\ base' = instructions
  /\ isLoading' = FALSE
  /\ isLoadingMore' = FALSE
  /\ txns' = Tail(txns)
  /\ ops' = <<>>
  /\ UNCHANGED <<db, nOps, nLoads, searchTerm, exported, event, listing, requests>>

PagedSearch == \E term \in SearchTerms : PagedSearchChange(term)
FetchReturn == \E r \in requests : FetchReturns(r)
FetchFailure == \E r \in requests : FetchFails(r)

NextPaged ==
  \/ PagedMount
  \/ PagedSearch
  \/ LoadMore
  \/ FetchReturn
  \/ FetchFailure
  \/ PagedLoadFinish

SpecPaged == InitPaged /\ [][NextPaged]_vars

\* paging with drags, deletes and their saves
NextPagedEdit ==
  \/ PagedMount
  \/ PagedSearch
  \/ LoadMore
  \/ FetchReturn
  \/ PagedLoadFinish
  \/ nOps < MaxEventOps /\ Drag
  \/ nOps < MaxEventOps /\ Delete
  \/ PutSucceeds

SpecPagedEdit == InitPaged /\ [][NextPagedEdit]_vars

\* ------------------------------------------------------- views for claims
HasProduct(s) == \E i \in 1..Len(products) : products[i].sku = s
PhotosOf(s) == products[FindSku(products, s)].photos
PlanOf(s) == Get(renameInstructions, s)
IdsOf(photos) == [i \in 1..Len(photos) |-> photos[i].id]
IdSet(photos) == {photos[i].id : i \in 1..Len(photos)}
\* the load-time reconcile of the raw listing of s with a snapshot
ReconciledWith(s, instructions) == ApplyInstructions(ApiProduct(s), instructions).photos
Reconciled(s) == ReconciledWith(s, renameInstructions)
\* a step that accepts a drag or a delete, and the operation it appended
IsOpStep == Len(ops') = Len(ops) + 1
StepOp == ops'[Len(ops')]
LastOp == ops[Len(ops)]
\* the entries one operation writes, taken alone
Contribution(op, photos) ==
  IF op.kind = "drag"
  THEN SwapEntries(EmptyObj, photos[op.a], photos[op.b])
  ELSE DeleteEntries(EmptyObj, photos, op.a)

\* ------------------------------------------------------------------- C1
\* C1: in a session that started from an empty plan for collection s, after
\* any sequence of drags and deletes, reconciling the raw listing with the
\* accumulated plan lists the surviving photos in the same order as the
\* in-memory photo list.
C1_ReconcileMatchesMemory ==
  \A s \in Skus :
    (~isLoading /\ HasProduct(s) /\ Get(base, s) = EmptyObj) =>
      SelectSeq(IdsOf(Reconciled(s)), LAMBDA id : id \in IdSet(PhotosOf(s)))
        = IdsOf(PhotosOf(s))

\* ------------------------------------------------------------------- C2
\* C2: two swaps of the same two positions a and b, merged into an initially
\* empty plan, leave the plan of that collection empty.
C2_SwapTwiceEmptyPlan ==
  \A s \in Skus :
    ( /\ Get(base, s) = EmptyObj
      /\ Len(ops) = 2
      /\ \A i \in 1..2 : ops[i].kind = "drag" /\ ops[i].sku = s
      /\ {ops[1].a, ops[1].b} = {ops[2].a, ops[2].b} ) =>
      PlanOf(s) = EmptyObj

\* ------------------------------------------------------------------- C3
\* C3: merging the contribution g of an operation into the plan f gives the
\* composition g after f over original names: f(o) = m and g(m) = z give
\* o -> z (no entry when o = z); o without an entry in f and g(o) defined
\* give o -> g(o).
C3_MergeIsComposition ==
  [][IsOpStep =>
      LET s == StepOp.sku
          f == PlanOf(s)
          g == Contribution(StepOp, PhotosOf(s))
          merged == Get(renameInstructions', s)
      IN /\ \A o \in DOMAIN f :
              f[o] \in DOMAIN g =>
                IF g[f[o]] = o THEN o \notin DOMAIN merged
                ELSE o \in DOMAIN merged /\ merged[o] = g[f[o]]
         /\ \A o \in (DOMAIN g) \ (DOMAIN f) :
              o \in DOMAIN merged /\ merged[o] = g[o]]_vars

\* ------------------------------------------------------------------- C4
\* C4: the accumulated plan never maps two distinct original names to the
\* same new name, and applying it to the raw listing never gives two files
\* the same effective filename.
PlanInjective(plan) ==
  \A x \in DOMAIN plan, y \in DOMAIN plan : plan[x] = plan[y] => x = y
NoNameCollision(photos) ==
  \A i \in 1..Len(photos), j \in 1..Len(photos) :
    photos[i].filename = photos[j].filename => i = j
C4_PlanRealizable ==
  \A s \in Skus :
    /\ PlanInjective(PlanOf(s))
    /\ NoNameCollision(Reconciled(s))

\* ------------------------------------------------------------------- C5
\* The rename-step linearization: entries whose target is not the source of
\* a pending entry go first (a chain runs from its tail backward); when only
\* cycles are left one member moves to a temporary name, which is renamed
\* last.
TmpName(k) == [n |-> 0 - k, ext |-> "tmp"]
Remove(obj, k) == [x \in (DOMAIN obj) \ {k} |-> obj[x]]

RECURSIVE LinearizeFrom(_, _, _)
LinearizeFrom(pendingEntries, steps, temps) ==
  IF DOMAIN pendingEntries = {} THEN steps
  ELSE LET noops == {a \in DOMAIN pendingEntries : pendingEntries[a] = a}
           tails == {a \in DOMAIN pendingEntries :
                       pendingEntries[a] \notin DOMAIN pendingEntries}
       IN IF noops # {}
          THEN LET a == CHOOSE x \in noops : TRUE
               IN LinearizeFrom(Remove(pendingEntries, a), steps, temps)
          ELSE IF tails # {}
          THEN LET a == CHOOSE x \in tails : TRUE
               IN LinearizeFrom(Remove(pendingEntries, a),
                                Append(steps, <<a, pendingEntries[a]>>), temps)
          ELSE LET a == CHOOSE x \in DOMAIN pendingEntries :
                          \E y \in DOMAIN pendingEntries : pendingEntries[y] = x
                   t == TmpName(temps + 1)
               IN LinearizeFrom(Put(Remove(pendingEntries, a), t, pendingEntries[a]),
                                Append(steps, <<a, t>>), temps + 1)

Linearize(plan) == LinearizeFrom(plan, <<>>, 0)

\* Run the steps against the names the files hold; FALSE as soon as a step
\* renames a file to a name another file holds.
RECURSIVE StepsCollisionFree(_, _)
StepsCollisionFree(held, steps) ==
  IF steps = <<>> THEN TRUE
  ELSE LET from == Head(steps)[1]
           to == Head(steps)[2]
           movers == {i \in DOMAIN held : held[i] = from}
       IN IF movers = {} THEN StepsCollisionFree(held, Tail(steps))
          ELSE IF \E j \in (DOMAIN held) \ movers : held[j] = to THEN FALSE
          ELSE StepsCollisionFree(
                 [i \in DOMAIN held |-> IF i \in movers THEN to ELSE held[i]],
                 Tail(steps))

RawNames(s) == [i \in 1..Len(ApiPhotos(s)) |-> ApiPhotos(s)[i].filename]

\* C5: the linearized rename steps of the accumulated plan of a collection,
\* run against the raw listing, never rename a file to a name that another
\* file holds at that moment.
C5_LinearizedStepsCollisionFree ==
  \A s \in Skus : StepsCollisionFree(RawNames(s), Linearize(PlanOf(s)))

C7_DeleteShiftsLaterUp ==
  [][(IsOpStep /\ StepOp.kind = "delete") =>
      LET s == StepOp.sku
          photos == PhotosOf(s)
          pos == StepOp.a
          before == PlanOf(s)
          after == Get(renameInstructions', s)
          assigned(f) == IF Has(after, f) THEN after[f] ELSE f
      IN /\ \A k \in (pos + 1)..Len(photos) :
              Num(assigned(photos[k].filename)) = k - 1
         /\ \A k \in 1..(pos - 1) :
              /\ Has(after, photos[k].filename) = Has(before, photos[k].filename)
              /\ Has(before, photos[k].filename) =>
                   after[photos[k].filename] = before[photos[k].filename]]_vars

C9_DeleteReconcilesContiguous ==
  [][(IsOpStep /\ StepOp.kind = "delete") =>
      LET s == StepOp.sku
          photos == PhotosOf(s)
          deleted == photos[StepOp.a].id
          N == Len(photos)
          reconciled == ReconciledWith(s, renameInstructions')
      IN /\ \A i \in 1..(N - 1) :
              /\ reconciled[i].id \in IdSet(photos) \ {deleted}
              /\ reconciled[i].order = i
         /\ reconciled[N].id = deleted]_vars

\* ------------------------------------------------------------------ C10
\* C10: deleting the photo at the last position leaves the plan of the
\* collection as it was.
C10_DeleteLastKeepsPlan ==
  [][(IsOpStep /\ StepOp.kind = "delete" /\ StepOp.a = Len(PhotosOf(StepOp.sku))) =>
      Get(renameInstructions', StepOp.sku) = PlanOf(StepOp.sku)]_vars

\* ------------------------------------------------------------------ C11
\* C11: in every reachable state no collection's plan holds a no-op entry:
\* every entry maps a name to a different name, after any sequence of drags
\* and deletes.
C11_NoNoopEntries ==
  \A s \in DOMAIN renameInstructions :
    \A f \in DOMAIN renameInstructions[s] : renameInstructions[s][f] # f

\* ------------------------------------------------------------------ C12
\* C12: for a collection with raw files 1.jpg, 2.jpg, 3.jpg and an empty
\* plan, swapping positions 1 and 3 gives the plan {1.jpg -> 3.jpg,
\* 3.jpg -> 1.jpg}; deleting position 2 after it gives a plan under which
\* the raw listing reconciles to original 3.jpg named 1.jpg, original 2.jpg
\* named 2.jpg, and original 1.jpg named 3.jpg in the last slot.
SwapPlan13 == Put(Put(EmptyObj, Jpg(1), Jpg(3)), Jpg(3), Jpg(1))
IsScenarioSwap(op, s) == op.kind = "drag" /\ op.sku = s /\ {op.a, op.b} = {1, 3}
C12_SwapThenDeleteScenario ==
  \A s \in Skus :
    ( /\ RawNames(s) = <<Jpg(1), Jpg(2), Jpg(3)>>
      /\ Get(base, s) = EmptyObj
      /\ ops # <<>>
      /\ IsScenarioSwap(ops[1], s) ) =>
      /\ Len(ops) = 1 => PlanOf(s) = SwapPlan13
      /\ (Len(ops) = 2 /\ ops[2] = [kind |-> "delete", sku |-> s, a |-> 2, b |-> 0]) =>
           /\ IdsOf(Reconciled(s)) = <<<<s, 3>>, <<s, 2>>, <<s, 1>>>>
           /\ \A i \in 1..3 : Reconciled(s)[i].filename = Jpg(i)

\* ------------------------------------------------------------------ C13
\* the name reached from f by following the entries of plan until a name
\* without an entry; NoName when the entries lead back into themselves
NoName == Name(0, "none")
RECURSIVE Follow(_, _, _)
Follow(plan, f, fuel) ==
  IF ~Has(plan, f) THEN f
  ELSE IF fuel = 0 THEN NoName
  ELSE Follow(plan, plan[f], fuel - 1)
Lookup(plan, f) == IF Has(plan, f) THEN plan[f] ELSE f
\* the photos of s are the raw photos of s, ordered by the numeric prefix of
\* their filenames and numbered 1..N
OrderedByPrefix(s) ==
  LET photos == PhotosOf(s)
  IN /\ Len(photos) = Len(ApiPhotos(s))
     /\ IdSet(photos) = IdSet(ApiPhotos(s))
     /\ \A i \in 1..Len(photos) : photos[i].order = i
     /\ \A i \in 1..Len(photos), j \in 1..Len(photos) :
          i < j => Num(photos[i].filename) <= Num(photos[j].filename)
JustLoaded == ~isLoading /\ ops = <<>>

\* C13 as claimed: a load gives every raw filename the name reached by
\* following the plan's entries to a name without an entry, orders the
\* photos by the numeric prefix of those names and numbers them 1..N.
C13_ResolvesByFollowing ==
  \A s \in Skus :
    (JustLoaded /\ HasProduct(s)) =>
      /\ \A i \in 1..Len(PhotosOf(s)) :
           PhotosOf(s)[i].filename =
             Follow(Get(base, s), PhotosOf(s)[i].path, Cardinality(DOMAIN Get(base, s)))
      /\ OrderedByPrefix(s)

\* C13 amended: a load gives every raw filename the name of its own entry
\* in the plan, looked up once and not followed further, and its own name
\* when it has no entry; it orders the photos by the numeric prefix of those
\* names and numbers them 1..N.
C13_ResolvesByOneLookup ==
  \A s \in Skus :
    (JustLoaded /\ HasProduct(s)) =>
      /\ \A i \in 1..Len(PhotosOf(s)) :
           PhotosOf(s)[i].filename = Lookup(Get(base, s), PhotosOf(s)[i].path)
      /\ OrderedByPrefix(s)

\* a load has applied a plan whose entries chain (the target of one entry is
\* the source of another) and the photos are not in listing order
C13_Witness ==
  /\ JustLoaded
  /\ \E s \in Skus :
       /\ HasProduct(s)
       /\ \E f \in DOMAIN Get(base, s) : Get(base, s)[f] \in DOMAIN Get(base, s)
       /\ \E f \in DOMAIN Get(base, s) : Get(base, s)[f] \notin DOMAIN Get(base, s)
       /\ IdsOf(PhotosOf(s)) # IdsOf(ApiPhotos(s))

\* ------------------------------------------------------------------ C14
HasCycle(plan) ==
  \E f \in DOMAIN plan : Follow(plan, f, Cardinality(DOMAIN plan)) = NoName
CorruptPlan(plan) == HasCycle(plan) \/ ~PlanInjective(plan)

\* C14: a load that meets a plan with a cycle, or with two original names
\* mapped to the same final name, ends in an error for that collection and
\* displays no order for it.
C14_CorruptPlanNotDisplayed ==
  \A s \in Skus :
    (JustLoaded /\ CorruptPlan(Get(base, s))) => ~HasProduct(s)

\* ------------------------------------------------------------------ C15
\* what the handlers must leave alone when they reject an event
Untouched == UNCHANGED <<products, renameInstructions, db, txns>>
\* a drag without a drop target, dropped on itself, dropped on a photo of
\* another collection, or naming a collection or a photo that is not there
InvalidDrag(activeSku, activeId, overSku, overId) ==
  \/ overId = NoTarget
  \/ activeId = overId
  \/ activeSku # overSku
  \/ ~HasProduct(activeSku)
  \/ activeId \notin IdSet(PhotosOf(activeSku))
  \/ overId \notin IdSet(PhotosOf(activeSku))
\* a delete naming a collection or a photo that is not there
InvalidDelete(sku, photoId) ==
  \/ ~HasProduct(sku)
  \/ photoId \notin IdSet(PhotosOf(sku))

\* C15: an invalid drag or delete leaves the products, the in-memory plan,
\* the persisted plan and the pending saves as they were.
\* (a step that touches any of them is not the handling of an invalid event)
C15_InvalidOperationChangesNothing ==
  [][~Untouched =>
       /\ \A a \in EventIds, o \in EventIds \cup {NoTarget} :
            InvalidDrag(a[1], a, o[1], o) =>
              /\ ~handleDragEnd(a[1], a, o[1], o)
              /\ ~handleDragEndReturns(a[1], a, o[1], o)
       /\ \A p \in EventIds :
            InvalidDelete(p[1], p) =>
              /\ ~handlePhotoDelete(p[1], p)
              /\ ~handlePhotoDeleteReturns(p[1], p)]_vars

\* a drop on a photo of another collection has been rejected while the plan
\* held entries and their save had been stored
C15_Witness ==
  /\ event = "drag: other product"
  /\ renameInstructions # EmptyObj
  /\ db # <<>>

\* ------------------------------------------------------------------ C16
NoSavePending == \A i \in 1..Len(txns) : txns[i].op # "put"
\* the last save failed: the in-memory plan holds merges the store has not
Unsaved == NoSavePending /\ renameInstructions # DbRead
\* a save leaves the queue and the stored record stays as it was
IsSaveFailure ==
  /\ txns # <<>>
  /\ Head(txns).op = "put"
  /\ txns' = Tail(txns)
  /\ db' = db

\* C16: a failed save leaves the in-memory plan as it is, and while the
\* plan holds unsaved merges no later step of the session takes them away:
\* a drag or a delete keeps every key of every collection's plan, and any
\* other step (a search load among them) leaves the in-memory plan alone.
C16_FailedSaveKeepsMemoryPlan ==
  [][/\ IsSaveFailure => renameInstructions' = renameInstructions
     /\ Unsaved =>
          IF IsOpStep
          THEN \A s \in DOMAIN renameInstructions :
                 /\ s \in DOMAIN renameInstructions'
                 /\ DOMAIN renameInstructions[s] \subseteq DOMAIN renameInstructions'[s]
          ELSE renameInstructions' = renameInstructions]_vars

\* ------------------------------------------------------------------ C17
\* the save at the head of the queue is stored and no later save is queued
IsLatestSaveSuccess ==
  /\ txns # <<>>
  /\ Head(txns).op = "put"
  /\ txns' = Tail(txns)
  /\ db' = <<Head(txns).data>>
  /\ \A i \in 2..Len(txns) : txns[i].op # "put"

\* C17: every accepted drag or delete queues a save of the whole in-memory
\* plan it has just built, and when the most recent save is stored the
\* stored snapshot equals the in-memory plan.
C17_SavedSnapshotIsMemoryPlan ==
  [][/\ IsOpStep => txns' = Append(txns, PutTxn(renameInstructions'))
     /\ IsLatestSaveSuccess => db' = <<renameInstructions'>>]_vars

\* ------------------------------------------------------------------ C18
\* the photo list one operation leaves
PhotosAfter(photos, op) ==
  IF op.kind = "drag"
  THEN Renumber(arrayMove(photos, op.a, op.b))
  ELSE Renumber(SubSeq(photos, 1, op.a - 1) \o SubSeq(photos, op.a + 1, Len(photos)))
\* the plan one operation leaves, merged into the plan before it
PlanAfter(plan, photos, op) ==
  Put(plan, op.sku,
      IF op.kind = "drag"
      THEN SwapEntries(Get(plan, op.sku), photos[op.a], photos[op.b])
      ELSE DeleteEntries(Get(plan, op.sku), photos, op.a))
\* the plan obtained by merging the operations one after the other, each on
\* the photo lists the operations before it left
RECURSIVE MergeInOrder(_, _, _)
MergeInOrder(plan, lists, opsLeft) ==
  IF opsLeft = <<>> THEN plan
  ELSE LET op == Head(opsLeft)
       IN MergeInOrder(PlanAfter(plan, lists[op.sku], op),
                       [lists EXCEPT ![op.sku] = PhotosAfter(lists[op.sku], op)],
                       Tail(opsLeft))
MergedInOrder ==
  MergeInOrder(base, [s \in Skus |-> ReconciledWith(s, base)], ops)

\* C18: when the save issued last is stored, however many saves were in
\* flight while the operations were accepted, the in-memory plan and the
\* stored plan both equal the plan obtained by merging the operations of the
\* session in the order they were issued.
C18_InFlightSavesLoseNothing ==
  [][(NoSavePending' /\ txns # txns' /\ db' # db) =>
       /\ renameInstructions' = MergedInOrder
       /\ db' = <<MergedInOrder>>]_vars

\* three operations on one collection: the save of the first is stored, the
\* third was accepted while the save of the second was in flight, and both
\* saves are still queued in the order the operations were issued
C18_Witness ==
  /\ Len(ops) = 3
  /\ \A i \in 1..3 : ops[i].sku = LastOp.sku
  /\ db # <<>>
  /\ Len(txns) = 2
  /\ txns[1].op = "put"
  /\ txns[2].op = "put"
  /\ txns[1].data # txns[2].data
  /\ txns[2].data = renameInstructions
  /\ renameInstructions = MergedInOrder

\* ------------------------------------------------------------------ C19
\* the delete of the stored record leaves the queue, and how it ended
IsClearSuccess ==
  /\ txns # <<>>
  /\ Head(txns).op = "delete"
  /\ txns' = Tail(txns)
  /\ event' = "cleared"
IsClearFailure ==
  /\ txns # <<>>
  /\ Head(txns).op = "delete"
  /\ txns' = Tail(txns)
  /\ event' = "clear failed"

\* C19: after a successful clear the stored plan and the in-memory plan are
\* empty and every displayed collection shows its photos in raw-listing
\* order; a failed clear leaves the in-memory plan as it was.
C19_ClearResetsAllChanges ==
  [][/\ IsClearSuccess =>
          /\ db' = <<>>
          /\ renameInstructions' = EmptyObj
          /\ \A i \in 1..Len(products') :
               IdsOf(products'[i].photos) = IdsOf(ApiPhotos(products'[i].sku))
     /\ IsClearFailure => renameInstructions' = renameInstructions]_vars

\* ------------------------------------------------------------------ C20
\* the mapping a reader of the exported document gets back
Parse(document) ==
  [s \in document.keys |->
     [f \in {m[2] : m \in {n \in document.members : n[1] = s}} |->
        (CHOOSE m \in document.members : m[1] = s /\ m[2] = f)[3]]]
IsExport == exported' # exported

\* C20 as claimed: at every export the exported mapping equals the snapshot
\* the plan store holds.
C20_ExportIsPersistedPlan ==
  [][IsExport => Parse(exported'[1]) = DbRead]_vars

\* C20 amended: at every export the exported mapping equals the in-memory
\* plan of that moment.
C20_ExportIsMemoryPlan ==
  [][IsExport => Parse(exported'[1]) = renameInstructions]_vars

\* a plan with entries was exported while the store held no record of it
C20_Witness ==
  /\ exported # <<>>
  /\ Parse(exported[1]) = renameInstructions
  /\ renameInstructions # EmptyObj
  /\ renameInstructions # DbRead

\* ------------------------------------------------------------------ C21
\* the operations of the session with the last two exchanged
LastTwoExchanged ==
  SubSeq(ops, 1, Len(ops) - 2) \o <<ops[Len(ops)], ops[Len(ops) - 1]>>

\* C21: a drag or a delete on one collection leaves the photo list and the
\* plan entries of every other collection as they were, and when the last
\* two operations are on different collections the plan is the one that
\* merging them in the other order gives.
C21_CollectionsIndependent ==
  [][IsOpStep =>
       /\ \A s \in Skus \ {StepOp.sku} :
            /\ HasProduct(s) =>
                 products'[FindSku(products', s)].photos = PhotosOf(s)
            /\ Has(renameInstructions', s) = Has(renameInstructions, s)
            /\ Get(renameInstructions', s) = PlanOf(s)
       /\ (ops # <<>> /\ LastOp.sku # StepOp.sku) =>
            renameInstructions' =
              MergeInOrder(base, [s \in Skus |-> ReconciledWith(s, base)],
                           SubSeq(ops, 1, Len(ops) - 1) \o <<StepOp, LastOp>>)]_vars

\* an operation on each of the two collections has been accepted, one after
\* the other, and both plans hold entries
C21_Witness ==
  /\ Len(ops) >= 2
  /\ LastOp.sku # ops[Len(ops) - 1].sku
  /\ PlanOf("A") # EmptyObj
  /\ PlanOf("B") # EmptyObj
  /\ renameInstructions =
       MergeInOrder(base, [s \in Skus |-> ReconciledWith(s, base)], LastTwoExchanged)

\* ------------------------------------------------------------------ C22
IsSaveCompletion == txns # <<>> /\ Head(txns).op = "put" /\ txns' = Tail(txns)
IsLoadCompletion == txns # <<>> /\ Head(txns).op = "get" /\ txns' = Tail(txns)

\* C22: the store holds nothing until a save succeeds; a save stores exactly
\* its snapshot or, failing, leaves the store alone; a successful clear
\* empties the store; nothing else changes the store; and a load returns the
\* stored snapshot, the empty mapping when there is none.
C22_StoreRoundTrip ==
  [][/\ (nOps' = 0 /\ event' = "none") => db' = <<>>
     /\ IsSaveCompletion => (db' = <<Head(txns).data>> \/ db' = db)
     /\ IsClearSuccess => db' = <<>>
     /\ (~IsSaveCompletion /\ ~IsClearSuccess) => db' = db
     /\ IsLoadCompletion =>
          /\ db = <<>> => renameInstructions' = EmptyObj
          /\ db # <<>> => renameInstructions' = db[1]]_vars

\* a second load has returned the snapshot of a save that followed a clear
C22_Witness ==
  /\ JustLoaded
  /\ nLoads = 2
  /\ event = "cleared"
  /\ renameInstructions # EmptyObj
  /\ db = <<renameInstructions>>

\* ------------------------------------------------------------------ C23
\* C23: within one collection the in-memory photos have pairwise distinct
\* filenames, and ordering them by the numeric prefix of the filename is
\* ordering them by the order field.
C23_FilenamesFollowOrder ==
  \A s \in Skus :
    HasProduct(s) =>
      \A i \in 1..Len(PhotosOf(s)), j \in 1..Len(PhotosOf(s)) :
        /\ i # j => PhotosOf(s)[i].filename # PhotosOf(s)[j].filename
        /\ PhotosOf(s)[i].order < PhotosOf(s)[j].order
             <=> Num(PhotosOf(s)[i].filename) < Num(PhotosOf(s)[j].filename)

\* ------------------------------------------------------------------ C24
OrderValues(photos) == {photos[i].order : i \in 1..Len(photos)}

\* C24: the order values of the photos of one collection are exactly 1..N,
\* N the number of photos it holds, each value carried by one photo.
C24_OrderIsOneToN ==
  \A s \in Skus :
    HasProduct(s) =>
      /\ OrderValues(PhotosOf(s)) = 1..Len(PhotosOf(s))
      /\ \A i \in 1..Len(PhotosOf(s)), j \in 1..Len(PhotosOf(s)) :
           i # j => PhotosOf(s)[i].order # PhotosOf(s)[j].order

\* a photo was deleted from the middle of a collection that still has two
C24_Witness ==
  /\ ops # <<>>
  /\ LastOp.kind = "delete"
  /\ LastOp.sku = "A"
  /\ IdsOf(PhotosOf("A")) = <<<<"A", 1>>, <<"A", 3>>>>

\* ------------------------------------------------------------------ C25
\* The object renameInstructions referred to before an accepted operation, as
\* it is after the handler ran.  {...renameInstructions} copies the top-level
\* keys only: when the collection of the operation already has a key, the
\* nested mapping of the copy is the nested mapping of the previous object,
\* and the handler's assignments newInstructions[sku][f] = g write into it.
\* A key created by the handler (newInstructions[sku] = {}) is in the copy
\* alone.
PreviousPlanAfter ==
  [s \in DOMAIN renameInstructions |->
     IF s = StepOp.sku THEN renameInstructions'[s] ELSE renameInstructions[s]]

\* C25: the plan object held before an accepted drag or delete has the same
\* entries after the handler ran as it had before.
C25_MergeLeavesPreviousPlan ==
  [][IsOpStep => PreviousPlanAfter = renameInstructions]_vars

\* ------------------------------------------------------------------ C26
IsDeleteStep == IsOpStep /\ StepOp.kind = "delete"
PhotosBefore == PhotosOf(StepOp.sku)
ProductAfter == products'[FindSku(products', StepOp.sku)]

\* C26: an accepted delete removes the chosen photo and no other; the photos
\* before it keep their position, the photos after it move up by one, and
\* totalImages becomes N - 1.
C26_DeleteRemovesOnePhoto ==
  [][IsDeleteStep =>
       /\ Len(ProductAfter.photos) = Len(PhotosBefore) - 1
       /\ ProductAfter.totalImages = Len(PhotosBefore) - 1
       /\ PhotosBefore[StepOp.a].id \notin IdSet(ProductAfter.photos)
       /\ \A i \in 1..Len(ProductAfter.photos) :
            /\ i < StepOp.a =>
                 /\ ProductAfter.photos[i].id = PhotosBefore[i].id
                 /\ ProductAfter.photos[i].order = PhotosBefore[i].order
            /\ i >= StepOp.a =>
                 /\ ProductAfter.photos[i].id = PhotosBefore[i + 1].id
                 /\ ProductAfter.photos[i].order = PhotosBefore[i + 1].order - 1]_vars

\* the middle photo of a collection reordered by a drag has been deleted
C26_Witness ==
  /\ Len(ops) >= 2
  /\ ops[Len(ops) - 1].kind = "drag"
  /\ ops[Len(ops) - 1].sku = "A"
  /\ LastOp = [kind |-> "delete", sku |-> "A", a |-> 2, b |-> 0]
  /\ Len(PhotosOf("A")) = 2
  /\ products[FindSku(products, "A")].totalImages = 2

\* ------------------------------------------------------------------ C28
\* C28: every entry of the in-memory plan maps a filename to a filename with
\* the same extension.
C28_EntriesKeepExtension ==
  \A s \in DOMAIN renameInstructions :
    \A f \in DOMAIN renameInstructions[s] :
      renameInstructions[s][f].ext = f.ext

\* ------------------------------------------------------------------ C29
IsAppendCompletion ==
  /\ IsLoadCompletion
  /\ Head(txns).data.append

\* C29: no two products of the list have the same sku, and a load-more
\* append leaves the products already in the list where they are.
C29_NoDuplicateSkus ==
  [][/\ \A i \in 1..Len(products'), j \in 1..Len(products') :
          i # j => products'[i].sku # products'[j].sku
     /\ IsAppendCompletion =>
          /\ Len(products') >= Len(products)
          /\ SubSeq(products', 1, Len(products)) = products]_vars

\* an append has added the second page to the first, and the response of
\* another append with a product of the list is about to be merged
C29_Witness ==
  /\ Len(products) = Len(ManyDirs)
  /\ txns # <<>>
  /\ Head(txns).op = "get"
  /\ Head(txns).data.append
  /\ \E i \in 1..Len(Head(txns).data.products), j \in 1..Len(products) :
       Head(txns).data.products[i].sku = products[j].sku

\* ------------------------------------------------------------------ C30
\* every call of loadProductsFromAPI has run to its end
AllRequestsCompleted ==
  /\ nLoads > 0
  /\ requests = {}
  /\ \A i \in 1..Len(txns) : txns[i].op # "get"

\* C30: once every request has completed, every displayed product matches
\* the current search term and the pagination state is that of a page of the
\* current search; a late load-more response for an earlier term adds nothing.
C30_LateAppendDiscarded ==
  AllRequestsCompleted =>
    /\ \A i \in 1..Len(products) : Includes(products[i].sku, searchTerm)
    /\ pagination = ApiPage(listing, pagination.page, Limit, searchTerm).pagination

\* ------------------------------------------------------------------ C27
\* C27: the completion of a product load keeps every entry of the in-memory
\* plan: a load that read the store while the save of a newer plan was in
\* flight does not put the older stored snapshot in its place.
C27_LoadKeepsAcceptedEntries ==
  [][IsLoadCompletion =>
       \A s \in DOMAIN renameInstructions :
         /\ Has(renameInstructions', s)
         /\ \A f \in DOMAIN renameInstructions[s] :
              /\ Has(renameInstructions'[s], f)
              /\ renameInstructions'[s][f] = renameInstructions[s][f]]_vars

====
